---- MODULE Spec2Model ----
(***************************************************************************)
(* Geospatial overlay engine of gridbridge-uk: the polling data hook       *)
(* (useGridData), the GridMapOverlay poller (refreshData), the effect      *)
(* lifecycle that owns the interval timer, and the per-surface extraction  *)
(* of layer collections from the stored overlay document.                  *)
(*                                                                         *)
(* One rendering surface is mounted per run (the variable surface).  The   *)
(* record data holds the poller state: for the useGridData surfaces it is  *)
(* the hook's single useState record; for GridMapOverlay its fields stand  *)
(* for the five useState cells overlayState, snapshot, opportunities,      *)
(* loading and error (lastUpdate is never written there).                  *)
(***************************************************************************)
EXTENDS Integers, Sequences, FiniteSets, TLC

\* ---------------------------------------------------------------- bounds
\* Number of poll cycles (calls of fetchData / refreshData) in one run.
MaxCycles == 2

\* ------------------------------------------------------------- constants
\* The default grid supply points (no node_type field); coordinates are in
\* hundredths of a degree.
DEFAULT_GSPS ==
    << [id |-> "didcot", coords |-> [lat |-> 5162, lng |-> -127], voltage_kv |-> 400, headroom_mw |-> 120, load_mw |-> 850],
       [id |-> "london", coords |-> [lat |-> 5151, lng |-> -13], voltage_kv |-> 400, headroom_mw |-> 45, load_mw |-> 2100],
       [id |-> "manchester", coords |-> [lat |-> 5348, lng |-> -224], voltage_kv |-> 400, headroom_mw |-> 85, load_mw |-> 1200],
       [id |-> "birmingham", coords |-> [lat |-> 5249, lng |-> -190], voltage_kv |-> 400, headroom_mw |-> 72, load_mw |-> 980],
       [id |-> "edinburgh", coords |-> [lat |-> 5595, lng |-> -319], voltage_kv |-> 275, headroom_mw |-> 95, load_mw |-> 650],
       [id |-> "glasgow", coords |-> [lat |-> 5586, lng |-> -425], voltage_kv |-> 400, headroom_mw |-> 110, load_mw |-> 720],
       [id |-> "cardiff", coords |-> [lat |-> 5148, lng |-> -318], voltage_kv |-> 275, headroom_mw |-> 88, load_mw |-> 420],
       [id |-> "bristol", coords |-> [lat |-> 5145, lng |-> -258], voltage_kv |-> 275, headroom_mw |-> 65, load_mw |-> 580],
       [id |-> "newcastle", coords |-> [lat |-> 5498, lng |-> -161], voltage_kv |-> 275, headroom_mw |-> 92, load_mw |-> 490],
       [id |-> "leeds", coords |-> [lat |-> 5380, lng |-> -155], voltage_kv |-> 275, headroom_mw |-> 78, load_mw |-> 620],
       [id |-> "liverpool", coords |-> [lat |-> 5341, lng |-> -298], voltage_kv |-> 275, headroom_mw |-> 82, load_mw |-> 540],
       [id |-> "sheffield", coords |-> [lat |-> 5338, lng |-> -147], voltage_kv |-> 275, headroom_mw |-> 68, load_mw |-> 480],
       [id |-> "cambridge", coords |-> [lat |-> 5221, lng |-> 12], voltage_kv |-> 132, headroom_mw |-> 105, load_mw |-> 320],
       [id |-> "oxford", coords |-> [lat |-> 5175, lng |-> -126], voltage_kv |-> 132, headroom_mw |-> 98, load_mw |-> 280],
       [id |-> "reading", coords |-> [lat |-> 5145, lng |-> -97], voltage_kv |-> 275, headroom_mw |-> 55, load_mw |-> 410],
       [id |-> "southampton", coords |-> [lat |-> 5091, lng |-> -140], voltage_kv |-> 275, headroom_mw |-> 73, load_mw |-> 380],
       [id |-> "norwich", coords |-> [lat |-> 5263, lng |-> 130], voltage_kv |-> 132, headroom_mw |-> 115, load_mw |-> 260],
       [id |-> "nottingham", coords |-> [lat |-> 5295, lng |-> -115], voltage_kv |-> 275, headroom_mw |-> 62, load_mw |-> 450],
       [id |-> "leicester", coords |-> [lat |-> 5264, lng |-> -113], voltage_kv |-> 275, headroom_mw |-> 58, load_mw |-> 390],
       [id |-> "aberdeen", coords |-> [lat |-> 5715, lng |-> -209], voltage_kv |-> 275, headroom_mw |-> 125, load_mw |-> 280],
       [id |-> "inverness", coords |-> [lat |-> 5748, lng |-> -422], voltage_kv |-> 132, headroom_mw |-> 140, load_mw |-> 180],
       [id |-> "dundee", coords |-> [lat |-> 5646, lng |-> -297], voltage_kv |-> 132, headroom_mw |-> 95, load_mw |-> 220],
       [id |-> "swansea", coords |-> [lat |-> 5162, lng |-> -394], voltage_kv |-> 275, headroom_mw |-> 85, load_mw |-> 290],
       [id |-> "plymouth", coords |-> [lat |-> 5038, lng |-> -414], voltage_kv |-> 132, headroom_mw |-> 92, load_mw |-> 240],
       [id |-> "exeter", coords |-> [lat |-> 5072, lng |-> -353], voltage_kv |-> 132, headroom_mw |-> 102, load_mw |-> 210] >>

\* The default generators.
DEFAULT_GENERATORS ==
    << [id |-> "drax", fuel_type |-> "biomass", coords |-> [lat |-> 5374, lng |-> -99], capacity_mw |-> 2595, output_mw |-> 1800],
       [id |-> "sizewell", fuel_type |-> "nuclear", coords |-> [lat |-> 5221, lng |-> 162], capacity_mw |-> 1198, output_mw |-> 1150],
       [id |-> "hinkley", fuel_type |-> "nuclear", coords |-> [lat |-> 5121, lng |-> -313], capacity_mw |-> 965, output_mw |-> 920],
       [id |-> "hornsea", fuel_type |-> "wind", coords |-> [lat |-> 5388, lng |-> 180], capacity_mw |-> 1218, output_mw |-> 850],
       [id |-> "dogger", fuel_type |-> "wind", coords |-> [lat |-> 5475, lng |-> 220], capacity_mw |-> 1200, output_mw |-> 780],
       [id |-> "dinorwig", fuel_type |-> "hydro", coords |-> [lat |-> 5312, lng |-> -411], capacity_mw |-> 1728, output_mw |-> 0],
       [id |-> "ccgt_pembroke", fuel_type |-> "gas", coords |-> [lat |-> 5168, lng |-> -499], capacity_mw |-> 2180, output_mw |-> 1450],
       [id |-> "ccgt_carrington", fuel_type |-> "gas", coords |-> [lat |-> 5343, lng |-> -241], capacity_mw |-> 884, output_mw |-> 620] >>

Null == [null |-> TRUE]

\* The rendering surfaces that poll the feeds.
HookSurfaces == {"GridSimulator", "GridSimulatorMap", "GridSimulatorMapFallback"}

Surfaces == HookSurfaces \cup {"GridMapOverlay"}

Docs == {"snapshot", "overlay", "opportunities"}

Cycles == 1..MaxCycles

VARIABLES
    surface,    \* which component is mounted
    mounted,    \* the component is mounted (its state cells are live)
    data,       \* poller state (see the header)
    cycle,      \* cycle[c]: "idle" | "inflight" | "done" for each call of fetchData
    effects,    \* number of times the polling effect has been set up
    timers,     \* ids of intervals created by setInterval and not cleared
    cleaned,    \* ids of intervals whose effect cleanup has run
    ticks,      \* ticks[e]: cycles started by the timer of effect e
    orphaned,   \* cycles that were in flight when an effect cleanup ran
    arrived,    \* the most recent arrival: <<>> or <<[cycle, status]>>
    now,        \* clock read by new Date()
    layers,     \* per-layer visibility (and opacity, in percent, on GridSimulator)
    selection,  \* the selected entity or Null (selectedNode in GridMapOverlay)
    zoom,       \* GridSimulator zoom factor, in thousandths
    uiOps,      \* number of user interface events handled so far
    generation, \* the snapshot's generation object handed to the mix panel, or Null
    mix,        \* <<>> or <<rows>>: the generation-mix rows rendered from it
    isPlaying,  \* GridSimulator's isPlaying state cell (the pause button)
    props,      \* the props handed to the component that is rendered next
    view        \* <<>> or <<v>>: what that component rendered from props

uiVars == <<layers, selection, zoom, uiOps, isPlaying>>

mixVars == <<generation, mix>>

viewVars == <<props, view>>

vars == <<surface, mounted, data, cycle, effects, timers, cleaned, ticks, orphaned,
          arrived, now, layers, selection, zoom, uiOps, generation, mix,
          isPlaying, props, view>>

\* Effects are set up at most twice: on mount and on the StrictMode re-run.
EffectIds == 1..2

\* ------------------------------------------------------------ the feeds
\* Entities a feed can deliver.  Coordinates are in hundredths of a degree;
\* a field the feed omits is absent from the record.
gen_a ==
    [id |-> "gen_a", name |-> "Wind A", fuel_type |-> "wind",
     coords |-> [lat |-> 5300, lng |-> -100], capacity_mw |-> 100, output_mw |-> 40]

\* A generator whose coordinates are zero.
gen_zero ==
    [id |-> "gen_zero", name |-> "Zero", fuel_type |-> "gas",
     coords |-> [lat |-> 0, lng |-> 0], capacity_mw |-> 0, output_mw |-> 0]

\* A generator without coordinates.
gen_nocoords ==
    [id |-> "gen_nocoords", name |-> "Nowhere", fuel_type |-> "solar",
     capacity_mw |-> 50, output_mw |-> 10]

\* An entity that carries both a fuel kind and a country code.
hybrid ==
    [id |-> "hybrid", name |-> "Hybrid", fuel_type |-> "gas", country_code |-> "FR",
     coords |-> [lat |-> 5100, lng |-> 100], capacity_mw |-> 200, output_mw |-> 50,
     flow_mw |-> 30]

node_a ==
    [id |-> "node_a", name |-> "Node A", node_type |-> "gsp",
     coords |-> [lat |-> 5200, lng |-> -150], voltage_kv |-> 400,
     headroom_mw |-> 51, load_mw |-> 300]

\* A node record without node_type, fuel_type or country_code.
bare ==
    [id |-> "bare", name |-> "Bare",
     coords |-> [lat |-> 5500, lng |-> -300], voltage_kv |-> 132,
     headroom_mw |-> 50, load_mw |-> 100]

ic_a ==
    [id |-> "ic_a", name |-> "IFA", country_code |-> "FR",
     coords |-> [lat |-> 5110, lng |-> 130], capacity_mw |-> 2000, flow_mw |-> -250]

\* Bodies of the overlay document: data lists of the generators and
\* grid_nodes layers, possibly empty, and the interconnectors layer.
OverlayBodies(c) ==
    { [ver |-> c, generators |-> g, grid_nodes |-> n, interconnectors |-> <<ic_a>>] :
        g \in {<<>>, <<gen_a, gen_zero, gen_nocoords, hybrid>>},
        n \in {<<>>, <<node_a, bare>>} }

Bodies(c, d) ==
    IF d = "overlay" THEN OverlayBodies(c)
    ELSE IF d = "snapshot" THEN { [ver |-> c] }
    ELSE { [ver |-> c, opportunities |-> <<c>>] }

\* What fetch(url) can produce for document d in cycle c: a 2xx response
\* with a body, a non-2xx response, or a rejection (transport or parse).
FetchResults(c, d) ==
    { [status |-> "ok", body |-> b] : b \in Bodies(c, d) }
      \cup { [status |-> "non2xx"], [status |-> "rejected"] }

Responses(c) ==
    { [snapshot |-> s, overlay |-> o, opportunities |-> p] :
        s \in FetchResults(c, "snapshot"),
        o \in FetchResults(c, "overlay"),
        p \in FetchResults(c, "opportunities") }

\* ------------------------------------------------------------- useGridData
\* fetch(url).then(r => r.ok ? r.json() : null)
thenJson(r) == IF r.status = "ok" THEN r.body ELSE Null

\* oppsRes?.opportunities || []
oppsOrEmpty(o) == IF o = Null THEN <<>> ELSE o.opportunities

\* A continuation whose catch branch also drops the stored snapshot.
fetchDataResult_reset(prev, res, t) ==
    IF \E d \in Docs : res[d].status = "rejected"
    THEN [prev EXCEPT !.loading = FALSE, !.error = [message |-> "Failed to fetch"],
                      !.snapshot = Null]
    ELSE [snapshot      |-> thenJson(res.snapshot),
          overlay       |-> thenJson(res.overlay),
          opportunities |-> oppsOrEmpty(thenJson(res.opportunities)),
          loading       |-> FALSE,
          error         |-> Null,
          lastUpdate    |-> [time |-> t]]

\* The continuation of fetchData after await Promise.all([...]).
fetchDataResult(prev, res, t) ==
    IF \E d \in Docs : res[d].status = "rejected"
    THEN [prev EXCEPT !.loading = FALSE, !.error = [message |-> "Failed to fetch"]]
    ELSE [snapshot      |-> thenJson(res.snapshot),
          overlay       |-> thenJson(res.overlay),
          opportunities |-> oppsOrEmpty(thenJson(res.opportunities)),
          loading       |-> FALSE,
          error         |-> Null,
          lastUpdate    |-> [time |-> t]]

\* ---------------------------------------------------------- GridMapOverlay
\* fetchOverlayState / fetchAggregatedSnapshot / fetchFlexibilityOpportunities:
\* a non-2xx response throws inside the try, every failure returns null.
fetchOrNull(r) == IF r.status = "ok" THEN r.body ELSE Null

\* setLoading(true); setError(null) at the head of refreshData.
refreshDataBegin(prev) == [prev EXCEPT !.loading = TRUE, !.error = Null]

\* The continuation of refreshData after await Promise.all([...]).
refreshDataResult(prev, res) ==
    LET overlay == fetchOrNull(res.overlay)
        snap    == fetchOrNull(res.snapshot)
        opps    == fetchOrNull(res.opportunities)
    IN  [prev EXCEPT
            !.overlay       = IF overlay # Null THEN overlay ELSE @,
            !.snapshot      = IF snap # Null THEN snap ELSE @,
            !.opportunities = IF opps # Null THEN opps.opportunities ELSE @,
            !.loading       = FALSE]

\* ---------------------------------------------------------------- layers
\* useState initial value of layers on each surface.
initialLayers(s) ==
    IF s = "GridSimulator"
    THEN [generators      |-> [visible |-> TRUE, opacity |-> 100],
          interconnectors |-> [visible |-> TRUE, opacity |-> 100],
          gridNodes       |-> [visible |-> TRUE, opacity |-> 80],
          carbonRegions   |-> [visible |-> TRUE, opacity |-> 50],
          constraints     |-> [visible |-> FALSE, opacity |-> 100]]
    ELSE IF s = "GridMapOverlay"
    THEN [generators |-> TRUE, interconnectors |-> TRUE, gridNodes |-> TRUE,
          carbonIntensity |-> TRUE]
    ELSE [generators |-> TRUE, interconnectors |-> TRUE, gridNodes |-> TRUE,
          carbonRegions |-> TRUE]

\* Layer controls whose carbon key is the one of another surface.
layerConfig_mismatch(s) ==
    IF s = "GridMapOverlay"
    THEN {"generators", "interconnectors", "gridNodes", "carbonRegions"}
    ELSE {"generators", "interconnectors", "gridNodes", "carbonIntensity"}

\* The keys the layer controls pass to toggleLayer / setLayerOpacity
\* (layerConfig of LayerControlsPanel, the LayerToggle elements).
layerConfig(s) ==
    IF s = "GridSimulator"
    THEN {"generators", "interconnectors", "gridNodes", "carbonRegions", "constraints"}
    ELSE IF s = "GridMapOverlay"
    THEN {"generators", "interconnectors", "gridNodes", "carbonIntensity"}
    ELSE {"generators", "interconnectors", "gridNodes", "carbonRegions"}

\* layers[key]?.visible on GridSimulator, layers[key] elsewhere.
isVisible(s, L, key) ==
    IF key \notin DOMAIN L THEN FALSE
    ELSE IF s = "GridSimulator" THEN L[key].visible ELSE L[key]

\* A toggle that only ever hides the layer.
toggleLayer_hide(s, L, key) ==
    [k \in DOMAIN L \cup {key} |->
        IF k # key THEN L[k]
        ELSE IF s # "GridSimulator" THEN FALSE
        ELSE IF key \in DOMAIN L THEN [L[key] EXCEPT !.visible = FALSE]
        ELSE [visible |-> FALSE]]

\* setLayers(prev => ({ ...prev, [key]: { ...prev[key], visible: !prev[key]?.visible } }))
\* on GridSimulator; setLayers(prev => ({ ...prev, [key]: !prev[key] })) elsewhere.
toggleLayer(s, L, key) ==
    [k \in DOMAIN L \cup {key} |->
        IF k # key THEN L[k]
        ELSE IF s # "GridSimulator" THEN ~isVisible(s, L, key)
        ELSE IF key \in DOMAIN L THEN [L[key] EXCEPT !.visible = ~@]
        ELSE [visible |-> TRUE]]

\* setLayers(prev => ({ ...prev, [key]: { ...prev[key], opacity } }))
setLayerOpacity(L, key, opacity) ==
    [k \in DOMAIN L \cup {key} |->
        IF k # key THEN L[k]
        ELSE IF key \in DOMAIN L THEN [L[key] EXCEPT !.opacity = opacity]
        ELSE [opacity |-> opacity]]

\* Positions of the opacity slider (min 0, max 100) the model tries.
SliderValues == {0, 100}

\* Math.max(0.5, Math.min(3, prev * delta)), in thousandths.
zoomBy(prev, delta) ==
    LET z == (prev * delta) \div 1000
    IN  IF z > 3000 THEN 3000 ELSE IF z < 500 THEN 500 ELSE z

\* delta of handleWheel: 0.9 when deltaY > 0, else 1.1.
WheelDeltas == {900, 1100}

\* ------------------------------------------------------------------ Init
Init ==
    /\ surface \in Surfaces
    /\ mounted = TRUE
    /\ data = [snapshot |-> Null, overlay |-> Null, opportunities |-> <<>>,
               loading |-> TRUE, error |-> Null, lastUpdate |-> Null]
    /\ cycle = [c \in Cycles |-> "idle"]
    /\ effects = 0
    /\ timers = {}
    /\ cleaned = {}
    /\ ticks = [e \in EffectIds |-> 0]
    /\ orphaned = {}
    /\ arrived = <<>>
    /\ now = 0
    /\ layers = initialLayers(surface)
    /\ selection = Null
    /\ zoom = 1000
    /\ uiOps = 0
    /\ generation = Null
    /\ mix = <<>>
    /\ isPlaying = TRUE
    /\ props = Null
    /\ view = <<>>

\* --------------------------------------------------------------- actions
Started == { c \in Cycles : cycle[c] # "idle" }

InFlight == { c \in Cycles : cycle[c] = "inflight" }

\* A call of fetchData / refreshData up to its await: the three requests
\* are issued; refreshData also sets loading and clears error first.
BeginCycle ==
    /\ Cardinality(Started) < MaxCycles
    /\ cycle' = [cycle EXCEPT ![Cardinality(Started) + 1] = "inflight"]
    /\ data' = IF surface = "GridMapOverlay" THEN refreshDataBegin(data) ELSE data
    /\ now' = now + 1

\* useEffect setup: fetchData(); const interval = setInterval(fetchData, ...)
effectSetup(active) ==
    /\ effects' = effects + 1
    /\ timers' = active \cup {effects + 1}
    /\ BeginCycle

\* A cleanup that leaves the interval running.
clearInterval_leak(e) == timers

\* useEffect cleanup: clearInterval(interval) on the closure's own interval.
clearInterval(e) == timers \ {e}

\* First commit of the component: the polling effect is set up.
Mount ==
    /\ mounted /\ effects = 0
    /\ effectSetup(timers)
    /\ UNCHANGED <<surface, mounted, cleaned, ticks, orphaned, arrived>>
    /\ UNCHANGED <<uiVars, mixVars, viewVars>>

\* React.StrictMode (development) re-runs every effect once right after
\* mount: cleanup, then setup again, with the component state kept.
StrictModeRemount ==
    /\ mounted /\ effects = 1 /\ 1 \in timers
    /\ arrived = <<>> /\ ticks[1] = 0 /\ Cardinality(Started) = 1
    /\ cleaned' = cleaned \cup {1}
    /\ orphaned' = orphaned \cup InFlight
    /\ effectSetup(clearInterval(1))
    /\ UNCHANGED <<surface, mounted, ticks, arrived>>
    /\ UNCHANGED <<uiVars, mixVars, viewVars>>

\* The interval of effect e fires and calls fetchData / refreshData.
Tick(e) ==
    /\ e \in timers
    /\ BeginCycle
    /\ ticks' = [ticks EXCEPT ![e] = @ + 1]
    /\ UNCHANGED <<surface, mounted, effects, timers, cleaned, orphaned, arrived>>
    /\ UNCHANGED <<uiVars, mixVars, viewVars>>

\* The refresh button (disabled={loading}) calls fetchData / refreshData.
RefreshClick ==
    /\ mounted /\ effects > 0
    /\ ~data.loading
    /\ BeginCycle
    /\ UNCHANGED <<surface, mounted, effects, timers, cleaned, ticks, orphaned, arrived>>
    /\ UNCHANGED <<uiVars, mixVars, viewVars>>

\* An arrival that also clears a selection the new overlay no longer holds.
Arrive_autoClear(c, res) ==
    /\ cycle[c] = "inflight"
    /\ cycle' = [cycle EXCEPT ![c] = "done"]
    /\ now' = now + 1
    /\ data' = IF ~mounted THEN data
               ELSE IF surface = "GridMapOverlay" THEN refreshDataResult(data, res)
               ELSE fetchDataResult(data, res, now + 1)
    /\ arrived' = <<[cycle |-> c, status |-> [d \in Docs |-> res[d].status]]>>
    /\ selection' = IF data'.overlay = data.overlay THEN selection ELSE Null
    /\ UNCHANGED <<surface, mounted, effects, timers, cleaned, ticks, orphaned,
                   layers, zoom, uiOps, generation, mix, isPlaying, props, view>>

\* Promise.all of cycle c settles with responses res and the rest of
\* fetchData / refreshData runs.  State updates of an unmounted component
\* are dropped by React.
Arrive(c, res) ==
    /\ cycle[c] = "inflight"
    /\ cycle' = [cycle EXCEPT ![c] = "done"]
    /\ now' = now + 1
    /\ data' = IF ~mounted THEN data
               ELSE IF surface = "GridMapOverlay" THEN refreshDataResult(data, res)
               ELSE fetchDataResult(data, res, now + 1)
    /\ arrived' = <<[cycle |-> c, status |-> [d \in Docs |-> res[d].status]]>>
    /\ UNCHANGED <<surface, mounted, effects, timers, cleaned, ticks, orphaned>>
    /\ UNCHANGED <<uiVars, mixVars, viewVars>>

\* The component is unmounted (route change): the effect cleanup runs.
Unmount ==
    /\ mounted /\ effects > 0
    /\ mounted' = FALSE
    /\ cleaned' = cleaned \cup {effects}
    /\ orphaned' = orphaned \cup InFlight
    /\ timers' = clearInterval(effects)
    /\ UNCHANGED <<surface, data, cycle, effects, ticks, arrived, now>>
    /\ UNCHANGED <<uiVars, mixVars, viewVars>>

Next ==
    \/ Mount
    \/ StrictModeRemount
    \/ \E e \in EffectIds : Tick(e)
    \/ RefreshClick
    \/ \E c \in Cycles : \E res \in Responses(c) : Arrive(c, res)
    \/ Unmount

Spec == Init /\ [][Next]_vars

\* ------------------------------------------------- layer collections
\* overlay?.layers?.generators?.data || []   (likewise grid_nodes)
apiData(overlay, key) == IF overlay = Null THEN <<>> ELSE overlay[key]

\* The generators collection a surface renders for a shown layer.  Only the
\* real-map simulator with fallbacks substitutes DEFAULT_GENERATORS, and it
\* does so whenever the list is empty.
generators(s, overlay) ==
    IF s = "GridSimulatorMapFallback"
    THEN IF Len(apiData(overlay, "generators")) > 0
         THEN apiData(overlay, "generators") ELSE DEFAULT_GENERATORS
    ELSE apiData(overlay, "generators")

\* The grid-nodes collection a surface renders for a shown layer.
gridNodes(s, overlay) ==
    IF s = "GridSimulatorMapFallback"
    THEN IF Len(apiData(overlay, "grid_nodes")) > 0
         THEN apiData(overlay, "grid_nodes") ELSE DEFAULT_GSPS
    ELSE apiData(overlay, "grid_nodes")

\* LiveStatsPanel isConnected={!error && !loading}; GridMapOverlay has only
\* the error banner.
isConnected ==
    IF surface = "GridMapOverlay" THEN data.error = Null
    ELSE data.error = Null /\ ~data.loading

\* overlay?.layers?.interconnectors?.data || []
interconnectors(overlay) == apiData(overlay, "interconnectors")

\* generators.slice(0, n): the number of generators a surface renders.
generatorLimit(s) ==
    IF s = "GridSimulator" THEN 100 ELSE IF s = "GridMapOverlay" THEN 50 ELSE 200

slice(seq, n) == SubSeq(seq, 1, IF Len(seq) < n THEN Len(seq) ELSE n)

\* The kinds of entity a surface draws with a marker.
EntityKinds == {"generator", "node", "interconnector"}

layerKey(kind) ==
    IF kind = "generator" THEN "generators"
    ELSE IF kind = "node" THEN "gridNodes" ELSE "interconnectors"

\* The collection a surface holds for a layer kind.
collection(s, overlay, kind) ==
    IF kind = "generator" THEN generators(s, overlay)
    ELSE IF kind = "node" THEN gridNodes(s, overlay)
    ELSE interconnectors(overlay)

\* The entities handed to the markers of a layer: nothing when the layer is
\* hidden, the first generatorLimit generators, every node and interconnector.
rendered(s, L, overlay, kind) ==
    IF ~isVisible(s, L, layerKey(kind)) THEN <<>>
    ELSE IF kind = "generator"
    THEN slice(collection(s, overlay, kind), generatorLimit(s))
    ELSE collection(s, overlay, kind)

\* ------------------------------------------------------------ placement
Excluded == [excluded |-> TRUE]

\* e.coords?.lat || dflt   (an absent or zero coordinate is falsy)
coordOr(e, axis, dflt) ==
    IF "coords" \in DOMAIN e /\ e.coords[axis] # 0 THEN e.coords[axis] ELSE dflt

\* !e.coords?.lat || !e.coords?.lng
lacksLatLng(e) ==
    \/ "coords" \notin DOMAIN e
    \/ e.coords.lat = 0
    \/ e.coords.lng = 0

\* Where a marker puts entity e (geographic point, hundredths of a degree),
\* or Excluded when the marker renders nothing.
\*   GridSimulator: latLngToXY(coords?.lat || 54, coords?.lng || -2), and
\*     (51, 0) for InterconnectorCable;
\*   GridSimulatorMap (both variants): null when lat or lng is falsy;
\*   GridMapOverlay: nodes and interconnectors need coords, generators need
\*     coords with lat !== 0.
placement(s, kind, e) ==
    IF s = "GridSimulator"
    THEN IF kind = "interconnector"
         THEN [lat |-> coordOr(e, "lat", 5100), lng |-> coordOr(e, "lng", 0)]
         ELSE [lat |-> coordOr(e, "lat", 5400), lng |-> coordOr(e, "lng", -200)]
    ELSE IF s = "GridMapOverlay"
    THEN IF "coords" \notin DOMAIN e THEN Excluded
         ELSE IF kind = "generator" /\ e.coords.lat = 0 THEN Excluded
         ELSE [lat |-> e.coords.lat, lng |-> e.coords.lng]
    ELSE IF lacksLatLng(e) THEN Excluded
         ELSE [lat |-> e.coords.lat, lng |-> e.coords.lng]

\* Markers drawn from the static default generators whatever the store holds.
clickable_defaults(s, L, overlay) ==
    { DEFAULT_GENERATORS[i] : i \in 1..Len(DEFAULT_GENERATORS) }

\* The entities whose marker calls setSelection / setSelectedNode on click:
\* every drawn marker, except that GridMapOverlay interconnectors have no
\* click handler.
clickable(s, L, overlay) ==
    UNION { { rendered(s, L, overlay, kind)[i] :
                i \in { j \in 1..Len(rendered(s, L, overlay, kind)) :
                          placement(s, kind, rendered(s, L, overlay, kind)[j]) # Excluded } } :
            kind \in IF s = "GridMapOverlay" THEN {"generator", "node"}
                     ELSE EntityKinds }

\* -------------------------------------------------------- selection panel
\* const isGenerator = selection.fuel_type !== undefined, and so on.
isGenerator(sel) == "fuel_type" \in DOMAIN sel

isNode(sel) == "node_type" \in DOMAIN sel

isInterconnector(sel) == "country_code" \in DOMAIN sel

\* The kind sections SelectionDetailPanel / SelectionPanel show for a
\* selection.  GridMapOverlay's panel has no kinds: it shows the Type row
\* for a fuel_type and the Headroom row for a headroom_mw.
panelSections(s, sel) ==
    IF s = "GridMapOverlay"
    THEN {k \in {"generator"} : "fuel_type" \in DOMAIN sel}
           \cup {k \in {"node"} : "headroom_mw" \in DOMAIN sel}
    ELSE {k \in {"generator"} : isGenerator(sel)}
           \cup {k \in {"node"} : isNode(sel)}
           \cup {k \in {"interconnector"} : isInterconnector(sel)}

\* Whether the panel reports a data-contract violation for the selection:
\* no panel has such a branch.
reportsViolation(s, sel) == FALSE

\* ------------------------------------------------- user interface actions
\* Number of user interface events in one run.
MaxUiOps == 2

UiEvent ==
    /\ mounted /\ effects > 0
    /\ uiOps < MaxUiOps
    /\ uiOps' = uiOps + 1
    /\ UNCHANGED <<surface, mounted, data, cycle, effects, timers, cleaned, ticks,
                   orphaned, arrived, now, generation, mix, props, view>>

\* A layer toggle that also drops the stored overlay document.
ToggleLayer_dropData(key) ==
    /\ mounted /\ effects > 0
    /\ uiOps < MaxUiOps
    /\ uiOps' = uiOps + 1
    /\ layers' = toggleLayer(surface, layers, key)
    /\ data' = [data EXCEPT !.overlay = Null]
    /\ UNCHANGED <<surface, mounted, cycle, effects, timers, cleaned, ticks,
                   orphaned, arrived, now, selection, zoom, generation, mix,
                   isPlaying, props, view>>

\* A layer button is clicked.
ToggleLayer(key) ==
    /\ UiEvent
    /\ layers' = toggleLayer(surface, layers, key)
    /\ UNCHANGED <<selection, zoom, isPlaying>>

\* The opacity slider of a visible layer is moved (GridSimulator only).
SetLayerOpacity(key, v) ==
    /\ surface = "GridSimulator"
    /\ isVisible(surface, layers, key)
    /\ UiEvent
    /\ layers' = setLayerOpacity(layers, key, v)
    /\ UNCHANGED <<selection, zoom, isPlaying>>

\* A marker is clicked: onClick={setSelection}.
Select(e) ==
    /\ UiEvent
    /\ selection' = e
    /\ UNCHANGED <<layers, zoom, isPlaying>>

\* The close control of the selection panel: setSelection(null).
ClearSelection ==
    /\ selection # Null
    /\ UiEvent
    /\ selection' = Null
    /\ UNCHANGED <<layers, zoom, isPlaying>>

\* handleWheel on the GridSimulator map.
Wheel(delta) ==
    /\ surface = "GridSimulator"
    /\ UiEvent
    /\ zoom' = zoomBy(zoom, delta)
    /\ UNCHANGED <<layers, selection, isPlaying>>

\* The responses the poller receives in runs that exercise the user
\* interface: every document loads; the overlay loads with empty layers; the
\* overlay request fails with a non-2xx status; the overlay request rejects.
UiResponses(c) ==
    { r \in Responses(c) :
        /\ r.snapshot.status = "ok" /\ r.opportunities.status = "ok"
        /\ r.overlay.status = "ok" =>
             (r.overlay.body.generators = <<>>) = (r.overlay.body.grid_nodes = <<>>) }

\* The user interface of a component that stays mounted, with its poller
\* running: the effect cleanup paths are those of Next and are left out here.
NextUI ==
    \/ Mount
    \/ \E e \in EffectIds : Tick(e)
    \/ RefreshClick
    \/ \E c \in Cycles : \E res \in UiResponses(c) : Arrive(c, res)
    \/ \E key \in layerConfig(surface) : ToggleLayer(key)
    \/ \E key \in layerConfig(surface) : \E v \in SliderValues : SetLayerOpacity(key, v)
    \/ \E e \in clickable(surface, layers, data.overlay) : Select(e)
    \/ ClearSelection
    \/ \E delta \in WheelDeltas : Wheel(delta)

SpecUI == Init /\ [][NextUI]_vars

\* --------------------------------------------------------- generation mix
\* The generation mix as a function of the snapshot's generation object.
\* by_fuel is kept as the sequence of its entries in insertion order, which
\* is the order Object.entries returns.  Megawatts are integers; a share is a
\* JavaScript number: a finite ratio num/den or Infinity (NaN never survives
\* the expressions below).

\* MW values of the variable fuels are multiples of 200 up to 200 * MaxMwSteps.
MaxMwSteps == 3

MwValues == { 200 * k : k \in 0..MaxMwSteps }

MixFuels == <<"wind", "gas", "solar">>

MoreFuels == << [fuel |-> "nuclear", mw |-> 500], [fuel |-> "biomass", mw |-> 300],
                [fuel |-> "hydro", mw |-> 100], [fuel |-> "coal", mw |-> 0] >>

ByFuelInputs ==
    LET short == UNION { { [i \in 1..n |-> [fuel |-> MixFuels[i], mw |-> f[i]]] :
                             f \in [1..n -> MwValues] } : n \in 0..Len(MixFuels) }
    IN  short \cup { b \o MoreFuels : b \in { x \in short : Len(x) = Len(MixFuels) } }

TotalInputs == {0, 600, 1000}

\* snapshot.generation: absent, or with either field present or absent.
MixInputs ==
    {Null}
      \cup { [by_fuel |-> b] : b \in ByFuelInputs }
      \cup { [total_mw |-> t] : t \in TotalInputs }
      \cup { [total_mw |-> t, by_fuel |-> b] : t \in TotalInputs, b \in ByFuelInputs }

Finite(num, den) == [kind |-> "finite", num |-> num, den |-> den]

Infinity == [kind |-> "Infinity"]

\* snapshot.generation?.by_fuel || {}
genByFuel(gen) == IF "by_fuel" \in DOMAIN gen THEN gen.by_fuel ELSE <<>>

\* snapshot.generation?.total_mw || 0
totalGen(gen) == IF "total_mw" \in DOMAIN gen THEN gen.total_mw ELSE 0

RECURSIVE insertByMw(_, _)
\* Position of an entry among entries already ordered by (a, b) => b - a:
\* behind every entry that is not smaller (Array.prototype.sort is stable).
insertByMw(x, sorted) ==
    IF sorted = <<>> THEN <<x>>
    ELSE IF Head(sorted).mw >= x.mw THEN <<Head(sorted)>> \o insertByMw(x, Tail(sorted))
    ELSE <<x>> \o sorted

RECURSIVE sortByMw(_)
\* Object.entries(genByFuel).sort(([, a], [, b]) => b - a)
sortByMw(entries) ==
    IF entries = <<>> THEN <<>>
    ELSE insertByMw(entries[Len(entries)], sortByMw(SubSeq(entries, 1, Len(entries) - 1)))

\* .slice(0, 6) in LiveStatsPanel, .slice(0, 5) in GridMapOverlay
mixLimit(s) == IF s = "GridMapOverlay" THEN 5 ELSE 6

\* pct.toFixed(1) in GridSimulator, pct.toFixed(0) elsewhere
mixDigits(s) == IF s = "GridSimulator" THEN 1 ELSE 0

\* A share that leaves out the factor 100.
share_unscaled(s, mw, gen) ==
    IF s = "GridMapOverlay"
    THEN IF "total_mw" \notin DOMAIN gen THEN Finite(0, 1)
         ELSE IF gen.total_mw = 0 THEN IF mw = 0 THEN Finite(0, 1) ELSE Infinity
         ELSE Finite(mw, gen.total_mw)
    ELSE IF totalGen(gen) > 0 THEN Finite(mw, totalGen(gen)) ELSE Finite(0, 1)

\* GridMapOverlay: (mw / snapshot.generation?.total_mw * 100) || 0, where
\* mw / undefined and 0 / 0 are NaN (falsy) and mw / 0 is Infinity (truthy).
\* LiveStatsPanel: totalGen > 0 ? (mw / totalGen) * 100 : 0.
share(s, mw, gen) ==
    IF s = "GridMapOverlay"
    THEN IF "total_mw" \notin DOMAIN gen THEN Finite(0, 1)
         ELSE IF gen.total_mw = 0 THEN IF mw = 0 THEN Finite(0, 1) ELSE Infinity
         ELSE Finite(mw * 100, gen.total_mw)
    ELSE IF totalGen(gen) > 0 THEN Finite(mw * 100, totalGen(gen)) ELSE Finite(0, 1)

pow10(d) == IF d = 0 THEN 1 ELSE 10

\* Number.prototype.toFixed(digits) of a non-negative number: the nearest
\* multiple of 10^-digits, the larger one on a tie; "Infinity" for Infinity.
toFixed(x, digits) ==
    IF x.kind = "Infinity" THEN [text |-> "Infinity"]
    ELSE [units |-> (2 * x.num * pow10(digits) + x.den) \div (2 * x.den),
          digits |-> digits]

\* The rows of the generation mix: fuel, MW, bar width and label.
generationMix(s, gen) ==
    LET listed == slice(sortByMw(genByFuel(gen)), mixLimit(s))
    IN  [i \in 1..Len(listed) |->
            [fuel  |-> listed[i].fuel,
             mw    |-> listed[i].mw,
             pct   |-> share(s, listed[i].mw, gen),
             label |-> toFixed(share(s, listed[i].mw, gen), mixDigits(s))]]

\* A snapshot's generation object reaches the panel before its first render.
InitMix ==
    /\ surface \in Surfaces
    /\ mounted = TRUE
    /\ data = [snapshot |-> Null, overlay |-> Null, opportunities |-> <<>>,
               loading |-> TRUE, error |-> Null, lastUpdate |-> Null]
    /\ cycle = [c \in Cycles |-> "idle"]
    /\ effects = 0
    /\ timers = {}
    /\ cleaned = {}
    /\ ticks = [e \in EffectIds |-> 0]
    /\ orphaned = {}
    /\ arrived = <<>>
    /\ now = 0
    /\ layers = initialLayers(surface)
    /\ selection = Null
    /\ zoom = 1000
    /\ uiOps = 0
    /\ generation \in MixInputs
    /\ mix = <<>>
    /\ isPlaying = TRUE
    /\ props = Null
    /\ view = <<>>

\* The panel renders the generation mix.
RenderMix ==
    /\ mix = <<>>
    /\ mix' = <<generationMix(surface, generation)>>
    /\ UNCHANGED <<surface, mounted, data, cycle, effects, timers, cleaned, ticks,
                   orphaned, arrived, now, generation>>
    /\ UNCHANGED <<uiVars, viewVars>>

NextMix == RenderMix

SpecMix == InitMix /\ [][NextMix]_vars

\* ---------------------------------------------------- component rendering
\* What the marker, tooltip, panel and scene components compute from their
\* props.  Each is a function of the props alone; RenderX applies it.

NaN == [kind |-> "NaN"]

\* Math.max(0.3, x) for a finite x.
atLeast03(x) == IF 10 * x.num < 3 * x.den THEN Finite(3, 10) ELSE x

\* x.f || dflt for a numeric field (absent and 0 are falsy).
fieldOr(x, f, dflt) == IF f \in DOMAIN x /\ x[f] # 0 THEN x[f] ELSE dflt

\* ---- interconnector flow
\* isImport ? '#22c55e' : flow < 0 ? '#ef4444' : '#6b7280', with
\* flow = interconnector.flow_mw || 0 (GridMapOverlay compares ic.flow_mw
\* itself; a comparison with undefined is false).
flowColour(ic) ==
    LET flow == fieldOr(ic, "flow_mw", 0)
    IN  IF flow > 0 THEN "green" ELSE IF flow < 0 THEN "red" ELSE "grey"

\* Tooltip / title: isImport ? 'Import' : 'Export'.
flowTooltip(ic) == IF fieldOr(ic, "flow_mw", 0) > 0 THEN "import" ELSE "export"

\* Selection panel: selection.flow_mw >= 0 ? green '(Import)' : red '(Export)';
\* undefined >= 0 is false.  GridMapOverlay's panel has no flow row.
flowPanel(s, sel) ==
    IF s = "GridMapOverlay" THEN [colour |-> "none", label |-> "none"]
    ELSE IF "flow_mw" \in DOMAIN sel /\ sel.flow_mw >= 0
    THEN [colour |-> "green", label |-> "import"]
    ELSE [colour |-> "red", label |-> "export"]

\* ---- headroom band
\* A band function whose amber band starts at 50.
getHeadroomColor_from50(headroom) ==
    IF headroom > 100 THEN "green" ELSE IF headroom >= 50 THEN "amber" ELSE "red"

\* part_001: getHeadroomColor
getHeadroomColor(headroom) ==
    IF headroom > 100 THEN "green" ELSE IF headroom > 50 THEN "amber" ELSE "red"

\* part_002: headroomColor
headroomColor(h) ==
    IF h > 100 THEN "green" ELSE IF h > 50 THEN "amber" ELSE "red"

\* GridNodeMarker: headroom = node.headroom_mw || 0, then the inline rule;
\* GridMapOverlay compares node.headroom_mw itself.
nodeMarkerColour(s, node) ==
    LET headroom == fieldOr(node, "headroom_mw", 0)
    IN  IF headroom > 100 THEN "green" ELSE IF headroom > 50 THEN "amber" ELSE "red"

\* Selection panel: headroom_mw > 100 ? green : headroom_mw > 50 ? amber : red.
\* GridMapOverlay's panel shows the headroom without a band.
nodePanelColour(s, sel) ==
    IF s = "GridMapOverlay" THEN "none"
    ELSE IF "headroom_mw" \in DOMAIN sel /\ sel.headroom_mw > 100 THEN "green"
    ELSE IF "headroom_mw" \in DOMAIN sel /\ sel.headroom_mw > 50 THEN "amber"
    ELSE "red"

\* ---- capacity factor
\* Marker: Math.max(0.3, (output_mw || 0) / (capacity_mw || 100)).
\* GridMapOverlay's marker uses no capacity factor.
markerCapFactor(s, g) ==
    IF s = "GridMapOverlay" THEN [kind |-> "none"]
    ELSE atLeast03(Finite(fieldOr(g, "output_mw", 0), fieldOr(g, "capacity_mw", 100)))

\* Panel, GridSimulator: (selection.output_mw / (selection.capacity_mw || 1)) * 100;
\* GridSimulatorMap: ((selection.output_mw || 0) / (selection.capacity_mw || 1)) * 100.
\* undefined / n is NaN.
panelCapFactor(s, sel) ==
    IF s = "GridMapOverlay" THEN [kind |-> "none"]
    ELSE IF s = "GridSimulator" /\ "output_mw" \notin DOMAIN sel THEN NaN
    ELSE Finite(fieldOr(sel, "output_mw", 0) * 100, fieldOr(sel, "capacity_mw", 1))

\* ---- fuel kinds
\* Keys of FUEL_CONFIG (GridSimulator, GridSimulatorMap) and of FuelColors /
\* FuelIcons (GridMapOverlay).
FuelKinds(s) ==
    {"wind", "solar", "gas", "nuclear", "biomass", "battery", "hydro", "coal", "other"}
      \cup IF s = "GridMapOverlay" THEN {} ELSE {"imports"}

\* The colour a table holds for a key (one name per fuel; 'other' is #6b7280).
tableColour(fuel) == IF fuel = "other" THEN "#6b7280" ELSE fuel

\* The icon a table holds for a key ('other' is Zap).
tableIcon(fuel) == IF fuel = "other" THEN "Zap" ELSE fuel

\* Generator marker: (FUEL_CONFIG[fuel_type] || FUEL_CONFIG.other).color,
\* FuelColors[gen.fuel_type] || '#6b7280'.
generatorColour(s, g) ==
    IF "fuel_type" \in DOMAIN g /\ g.fuel_type \in FuelKinds(s)
    THEN tableColour(g.fuel_type) ELSE "#6b7280"

\* Generation-mix icon: config.icon, FuelIcons[fuel] || Zap.
mixIcon(s, fuel) == IF fuel \in FuelKinds(s) THEN tableIcon(fuel) ELSE "Zap"

\* Generation-mix bar colour: config.color with config = FUEL_CONFIG[fuel] ||
\* FUEL_CONFIG.other; FuelColors[fuel] in GridMapOverlay (undefined for a key
\* the table lacks).
mixBarColour(s, fuel) ==
    IF fuel \in FuelKinds(s) THEN tableColour(fuel)
    ELSE IF s = "GridMapOverlay" THEN "undefined" ELSE "#6b7280"

\* ---- scene
\* The entities a surface draws for each kind: those handed to the markers
\* for which the marker renders something.
scene(s, L, overlay) ==
    [kind \in EntityKinds |->
        SelectSeq(rendered(s, L, overlay, kind),
                  LAMBDA e : placement(s, kind, e) # Excluded)]

\* ---- inputs
FlowInputs ==
    { [site |-> "interconnector", e |-> [ic_a EXCEPT !.flow_mw = f]] : f \in {-250, 0, 250} }
      \cup { [site |-> "interconnector",
              e |-> [id |-> "ic_noflow", name |-> "NoFlow", country_code |-> "NL",
                     coords |-> [lat |-> 5200, lng |-> 200]]] }

\* Headroom values run over 0..MaxHeadroom.
MaxHeadroom == 120

NodeInputs ==
    { [site |-> "node", e |-> [node_a EXCEPT !.headroom_mw = h]] : h \in 0..MaxHeadroom }
      \cup { [site |-> "node",
              e |-> [id |-> "node_nohead", name |-> "NoHead", node_type |-> "bsp",
                     coords |-> [lat |-> 5200, lng |-> -150]]] }

GeneratorInputs ==
    LET base == [id |-> "g", name |-> "G", coords |-> [lat |-> 5300, lng |-> -100]]
        fuels == { [fuel_type |-> f] : f \in {"wind", "imports", "tidal"} }
        outs  == { [output_mw |-> o] : o \in {0, 40} } \cup { <<>> }
        caps  == { [capacity_mw |-> c] : c \in {0, 100} } \cup { <<>> }
    IN  { [site |-> "generator", e |-> base @@ f @@ o @@ c] :
            f \in fuels, o \in outs, c \in caps }

MixRowInputs ==
    { [site |-> "mixRow", fuel |-> f] : f \in {"wind", "coal", "other", "imports", "tidal"} }

\* Overlay documents with n generators, n around the surface's slice limit.
SceneInputs(s) ==
    { [site |-> "scene",
       overlay |-> [ver |-> 1,
                    generators |-> [i \in 1..n |-> [gen_a EXCEPT !.id = ToString(i)]],
                    grid_nodes |-> <<node_a>>,
                    interconnectors |-> <<ic_a>>],
       layers |-> L] :
        n \in {0, 1, generatorLimit(s), generatorLimit(s) + 1},
        L \in {initialLayers(s)}
               \cup { toggleLayer(s, initialLayers(s), k) : k \in {"generators", "gridNodes"} } }

ViewInputs(s) ==
    FlowInputs \cup NodeInputs \cup GeneratorInputs \cup MixRowInputs \cup SceneInputs(s)

\* ---- specification
\* A component receives its props before its first render.
InitView ==
    /\ surface \in Surfaces
    /\ mounted = TRUE
    /\ data = [snapshot |-> Null, overlay |-> Null, opportunities |-> <<>>,
               loading |-> TRUE, error |-> Null, lastUpdate |-> Null]
    /\ cycle = [c \in Cycles |-> "idle"]
    /\ effects = 0
    /\ timers = {}
    /\ cleaned = {}
    /\ ticks = [e \in EffectIds |-> 0]
    /\ orphaned = {}
    /\ arrived = <<>>
    /\ now = 0
    /\ layers = initialLayers(surface)
    /\ selection = Null
    /\ zoom = 1000
    /\ uiOps = 0
    /\ generation = Null
    /\ mix = <<>>
    /\ isPlaying = TRUE
    /\ props \in ViewInputs(surface)
    /\ view = <<>>

\* A render writes view and nothing else.
Renders(site, v) ==
    /\ props.site = site
    /\ view = <<>>
    /\ view' = <<v>>
    /\ UNCHANGED <<surface, mounted, data, cycle, effects, timers, cleaned, ticks,
                   orphaned, arrived, now, props>>
    /\ UNCHANGED <<uiVars, mixVars>>

\* InterconnectorCable / InterconnectorLine, and the panel's flow row.
RenderInterconnector ==
    Renders("interconnector",
            [colour  |-> flowColour(props.e),
             tooltip |-> flowTooltip(props.e),
             panel   |-> flowPanel(surface, props.e)])

\* GridNodeMarker and the panel's headroom row, with the two stand-alone
\* band functions applied to the same headroom.
RenderNode ==
    Renders("node",
            [marker           |-> nodeMarkerColour(surface, props.e),
             panel            |-> nodePanelColour(surface, props.e),
             getHeadroomColor |-> getHeadroomColor(fieldOr(props.e, "headroom_mw", 0)),
             headroomColor    |-> headroomColor(fieldOr(props.e, "headroom_mw", 0))])

\* AnimatedGeneratorIcon / GeneratorMarker, and the panel's capacity factor.
RenderGenerator ==
    Renders("generator",
            [colour      |-> generatorColour(surface, props.e),
             capFactor   |-> markerCapFactor(surface, props.e),
             panelFactor |-> panelCapFactor(surface, props.e)])

\* One row of the generation mix: icon and bar colour.
RenderMixRow ==
    Renders("mixRow",
            [icon   |-> mixIcon(surface, props.fuel),
             colour |-> mixBarColour(surface, props.fuel)])

\* The map scene.
RenderScene ==
    Renders("scene", scene(surface, props.layers, props.overlay))

NextView ==
    \/ RenderInterconnector
    \/ RenderNode
    \/ RenderGenerator
    \/ RenderMixRow
    \/ RenderScene

SpecView == InitView /\ [][NextView]_vars

\* ------------------------------------------------- highlight and opacity
\* entity.id, which is undefined when the field is absent.
idOf(x) == IF "id" \in DOMAIN x THEN [id |-> x.id] ELSE [undefined |-> TRUE]

\* The drawn entities that get the highlight treatment.  GridSimulator
\* passes selected={selection?.id === e.id} to GridNodeMarker and
\* AnimatedGeneratorIcon only; the other surfaces have no highlight.
highlighted(s, L, overlay, sel) ==
    IF s # "GridSimulator" THEN {}
    ELSE UNION { { e \in { scene(s, L, overlay)[kind][i] :
                             i \in 1..Len(scene(s, L, overlay)[kind]) } :
                     idOf(sel) = idOf(e) } :
                 kind \in {"node", "generator"} }

\* opacity={layers.X?.opacity || 1}, in percent (0 is falsy).
renderedOpacity(L, key) == IF L[key].opacity # 0 THEN L[key].opacity ELSE 100

\* value={(layers[key]?.opacity || 1) * 100} of the opacity slider.
sliderValue(L, key) == IF L[key].opacity # 0 THEN L[key].opacity ELSE 100

\* ------------------------------------------------------------------ pause
\* The pause button: setIsPlaying(!isPlaying).
TogglePlaying ==
    /\ surface = "GridSimulator"
    /\ mounted /\ effects > 0
    /\ isPlaying' = ~isPlaying
    /\ UNCHANGED <<surface, mounted, data, cycle, effects, timers, cleaned, ticks,
                   orphaned, arrived, now, layers, selection, zoom, uiOps>>
    /\ UNCHANGED <<mixVars, viewVars>>

\* The poller of a mounted component together with the pause button.
NextPause ==
    \/ Mount
    \/ \E e \in EffectIds : Tick(e)
    \/ RefreshClick
    \/ \E c \in Cycles : \E res \in UiResponses(c) : Arrive(c, res)
    \/ TogglePlaying

SpecPause == Init /\ [][NextPause]_vars

\* ================================================================ claims
\* Cycle c's Promise.all settles in this step.
Arrives(c) == cycle[c] = "inflight" /\ cycle'[c] = "done"

\* Status of document d in the most recent arrival.
LastStatus(d) == arrived[1].status[d]

\* The stored value of document d is the body fetched by cycle c.
StoredFrom(d, c) ==
    IF d = "opportunities" THEN data.opportunities = <<c>>
    ELSE data[d] # Null /\ data[d].ver = c

\* The cycle whose body is stored for document d (0: none).
StoredVer(d) ==
    IF d = "opportunities"
    THEN IF data.opportunities = <<>> THEN 0 ELSE data.opportunities[1]
    ELSE IF data[d] = Null THEN 0 ELSE data[d].ver

\* C1: in every poll cycle of a mounted surface, when exactly one of the
\* three fetches fails (rejected or non-2xx) and the other two succeed, the
\* two successful documents are applied to the state by that cycle.
C1_SuccessfulDocsApplied ==
    [][\A c \in Cycles :
        (Arrives(c) /\ mounted
           /\ Cardinality({d \in Docs : LastStatus(d)' # "ok"}) = 1)
        => \A d \in Docs : LastStatus(d)' = "ok" => StoredFrom(d, c)']_vars

\* C2: after a completed cycle, every document whose fetch failed in that
\* cycle keeps exactly its value from before the cycle's result arrived.
C2_FailedDocsKept ==
    [][\A c \in Cycles : Arrives(c) =>
        \A d \in Docs : LastStatus(d)' # "ok" => data'[d] = data[d]]_vars

\* C3: when the result of an older cycle arrives after a newer cycle's
\* result for the same document has been applied, the older result is
\* discarded: the stored document stays the newer one.
C3_StaleResultDiscarded ==
    [][\A c \in Cycles : Arrives(c) =>
        \A d \in Docs : StoredVer(d) > c => data'[d] = data[d]]_vars

\* C4: in every reachable state at most one poll cycle whose result can
\* still be applied is in flight.
C4_AtMostOneInFlight == mounted => Cardinality(InFlight) <= 1

\* C5: the result of a cycle that was in flight when the polling effect was
\* cleaned up does not change snapshot, overlay, opportunities, error or
\* lastUpdate when it arrives.
C5_ResultAfterStopIgnored ==
    [][\A c \in orphaned : Arrives(c) =>
        /\ data'.snapshot = data.snapshot
        /\ data'.overlay = data.overlay
        /\ data'.opportunities = data.opportunities
        /\ data'.error = data.error
        /\ data'.lastUpdate = data.lastUpdate]_vars

\* C6: once the cleanup of a polling effect has run, the interval that
\* effect created never starts another poll cycle.
C6_ClearedTimerNeverFires ==
    [][\A e \in cleaned : ticks'[e] = ticks[e]]_vars

\* C6 witness: an interval that had started a cycle was cleared, and a
\* result of a cycle left in flight by the cleanup has arrived since.
C6_Witness ==
    /\ \E e \in cleaned : ticks[e] > 0 /\ e \notin timers
    /\ arrived # <<>> /\ arrived[1].cycle \in orphaned

\* C7: when the stored overlay document was fetched successfully and its
\* generators (grid nodes) list is empty, the collection used for the layer
\* is empty.
C7_EmptyResultStaysEmpty ==
    data.overlay # Null =>
        /\ data.overlay.generators = <<>> => generators(surface, data.overlay) = <<>>
        /\ data.overlay.grid_nodes = <<>> => gridNodes(surface, data.overlay) = <<>>

\* C8: when no overlay document is held, the generators and grid-nodes
\* collections are the default sets on every surface.
C8_AbsentFeedUsesDefaults ==
    data.overlay = Null =>
        /\ generators(surface, data.overlay) = DEFAULT_GENERATORS
        /\ gridNodes(surface, data.overlay) = DEFAULT_GSPS

\* C9: right after a completed poll cycle the surface shows connected (no
\* error, not offline) exactly when no fetch failed in that cycle.
C9_ConnectedIffNoFailure ==
    [][\A c \in Cycles : (Arrives(c) /\ mounted) =>
        (isConnected' <=> \A d \in Docs : LastStatus(d)' = "ok")]_vars

\* C10: the last-update timestamp does not advance in a cycle in which a
\* document's fetch failed.
C10_TimestampOnlyOnSuccess ==
    [][\A c \in Cycles :
        (Arrives(c) /\ \E d \in Docs : LastStatus(d)' # "ok")
        => data'.lastUpdate = data.lastUpdate]_vars

\* -------------------------------------------------------------- selection
\* Entity-kind resolution by attribute shape: the kinds an entity matches.
matchedKinds(e) ==
    {k \in {"generator"} : "fuel_type" \in DOMAIN e}
      \cup {k \in {"node"} : "node_type" \in DOMAIN e}
      \cup {k \in {"interconnector"} : "country_code" \in DOMAIN e}

\* The entities of the collections a surface holds.
storeEntities(s, overlay) ==
    UNION { { collection(s, overlay, kind)[i] :
                i \in 1..Len(collection(s, overlay, kind)) } : kind \in EntityKinds }

\* The entities in the layers of the stored overlay document.
overlayEntities(overlay) ==
    UNION { { apiData(overlay, key)[i] : i \in 1..Len(apiData(overlay, key)) } :
            key \in {"generators", "grid_nodes", "interconnectors"} }

\* C11: a selection that matches more than one kind is reported as a
\* data-contract violation and shown under no kind.
C11_MultiKindReported ==
    (selection # Null /\ Cardinality(matchedKinds(selection)) > 1)
        => /\ reportsViolation(surface, selection)
           /\ panelSections(surface, selection) = {}

\* C12: a selection that matches none of the three kinds is reported as a
\* data-contract violation.
C12_NoKindReported ==
    (selection # Null /\ matchedKinds(selection) = {})
        => reportsViolation(surface, selection)

\* C13: a step that toggles a layer is undone by toggling the same layer
\* again (visible flag, opacity and every other layer as before), and the
\* step leaves the stored documents, the collections and the selection alone.
C13_ToggleTwiceRestores ==
    [][\A key \in layerConfig(surface) :
        layers' = toggleLayer(surface, layers, key) =>
            /\ toggleLayer(surface, layers', key) = layers
            /\ isVisible(surface, layers', key) # isVisible(surface, layers, key)
            /\ data' = data
            /\ selection' = selection
            /\ \A kind \in EntityKinds :
                 collection(surface, data'.overlay, kind)
                    = collection(surface, data.overlay, kind)]_vars

\* C13 witness: a layer's visibility differs from its initial value while an
\* overlay document is held and an entity is selected.
C13_Witness ==
    /\ \E key \in layerConfig(surface) :
          isVisible(surface, layers, key) # isVisible(surface, initialLayers(surface), key)
    /\ data.overlay # Null
    /\ selection # Null

\* C14: a step that changes layers, selection or zoom starts no poll cycle
\* and leaves the stored documents unchanged; a layer that is visible after
\* the step renders exactly the collection held before it.
C14_UiLeavesDataAlone ==
    [][(layers' # layers \/ selection' # selection \/ zoom' # zoom) =>
        /\ data' = data
        /\ cycle' = cycle
        /\ \A kind \in EntityKinds :
             isVisible(surface, layers', layerKey(kind)) =>
                rendered(surface, layers', data'.overlay, kind)
                  = slice(collection(surface, data.overlay, kind),
                          IF kind = "generator" THEN generatorLimit(surface)
                          ELSE Len(collection(surface, data.overlay, kind)))]_vars

\* C14 witness: a layer is hidden while its collection is still held, after a
\* poll cycle has delivered it.
C14_Witness ==
    \E kind \in EntityKinds :
        /\ ~isVisible(surface, layers, layerKey(kind))
        /\ collection(surface, data.overlay, kind) # <<>>
        /\ rendered(surface, layers, data.overlay, kind) = <<>>
        /\ arrived # <<>>

\* C15: the selection changes only in a select or clear step, which touches
\* neither the poller nor the layers; a poll cycle or layer toggle never
\* changes it; clear yields the no-selection state.
C15_SelectionOnlyBySelectOrClear ==
    [][/\ selection' # selection =>
            /\ data' = data /\ cycle' = cycle /\ layers' = layers
            /\ \/ selection' = Null
               \/ selection' \in clickable(surface, layers, data.overlay)
       /\ ClearSelection => selection' = Null]_vars

\* C15 witness: the selected entity is no longer in any collection the
\* surface holds after a poll cycle replaced the overlay.
C15_Witness ==
    /\ selection # Null
    /\ arrived # <<>>
    /\ selection \notin storeEntities(surface, data.overlay)

\* C16: the layer-state map keeps exactly its initial keys and, where layers
\* carry an opacity, every opacity is within [0,1] (0..100 percent).
C16_LayerMapIntact ==
    /\ DOMAIN layers = DOMAIN initialLayers(surface)
    /\ surface = "GridSimulator" =>
         \A k \in DOMAIN layers :
            /\ DOMAIN layers[k] = {"visible", "opacity"}
            /\ layers[k].opacity \in 0..100

\* C16 witness: on GridSimulator an opacity was changed and a layer toggled,
\* and a poll cycle has completed.
C16_Witness ==
    /\ surface = "GridSimulator"
    /\ arrived # <<>>
    /\ \E k \in DOMAIN layers : layers[k].opacity # initialLayers(surface)[k].opacity
    /\ \E k \in DOMAIN layers : layers[k].visible # initialLayers(surface)[k].visible

\* C17 (as claimed): an entity that becomes the selection is in a layer of
\* the stored overlay document.
C17_SelectedFromOverlayDocument ==
    [][(selection' # selection /\ selection' # Null)
         => selection' \in overlayEntities(data.overlay)]_vars

\* C17 (amended): an entity that becomes the selection is in a collection
\* the surface currently holds: a layer of the stored overlay document or,
\* on the surface with fallbacks, the default set substituted for it.
C17_SelectedFromStore ==
    [][(selection' # selection /\ selection' # Null)
         => selection' \in storeEntities(surface, data.overlay)]_vars

\* C17 witness: a default entity is selected on the surface with fallbacks
\* while no overlay document is held.
C17_Witness ==
    /\ surface = "GridSimulatorMapFallback"
    /\ data.overlay = Null
    /\ selection # Null
    /\ selection \in storeEntities(surface, data.overlay)

\* Absent or zero coordinates.
unplaceable(e) ==
    \/ "coords" \notin DOMAIN e
    \/ e.coords.lat = 0 /\ e.coords.lng = 0

\* C18: an entity whose coordinates are absent or zero is excluded from the
\* render scene on every surface.
C18_UnplaceableExcluded ==
    \A kind \in EntityKinds :
        \A i \in 1..Len(rendered(surface, layers, data.overlay, kind)) :
            unplaceable(rendered(surface, layers, data.overlay, kind)[i])
              => placement(surface, kind,
                           rendered(surface, layers, data.overlay, kind)[i]) = Excluded

\* ------------------------------------------------------- generation mix
\* The MW value by_fuel holds for a fuel.
mwOf(gen, fuel) ==
    genByFuel(gen)[CHOOSE i \in 1..Len(genByFuel(gen)) : genByFuel(gen)[i].fuel = fuel].mw

\* The rows last rendered.
mixRows == mix[1]

listedFuels == { mixRows[i].fuel : i \in 1..Len(mixRows) }

\* C19: when total generation is greater than 0, every listed fuel's share is
\* exactly fuel MW * 100 / total MW, its label is that share to the panel's
\* number of decimals, the rows are in descending order of MW, and they are
\* the largest entries of by_fuel up to the panel's limit.
C19_ShareAndRanking ==
    (mix # <<>> /\ totalGen(generation) > 0) =>
        /\ \A i \in 1..Len(mixRows) :
             /\ mixRows[i].mw = mwOf(generation, mixRows[i].fuel)
             /\ mixRows[i].pct.kind = "finite"
             /\ mixRows[i].pct.num * totalGen(generation)
                  = 100 * mixRows[i].mw * mixRows[i].pct.den
             /\ 2 * (mixRows[i].label.units * totalGen(generation)
                       - 100 * mixRows[i].mw * pow10(mixRows[i].label.digits))
                  <= totalGen(generation)
             /\ 2 * (100 * mixRows[i].mw * pow10(mixRows[i].label.digits)
                       - mixRows[i].label.units * totalGen(generation))
                  <= totalGen(generation)
        /\ \A i, j \in 1..Len(mixRows) : i < j => mixRows[i].mw >= mixRows[j].mw
        /\ Len(mixRows) = IF Len(genByFuel(generation)) < mixLimit(surface)
                      THEN Len(genByFuel(generation)) ELSE mixLimit(surface)
        /\ \A k \in 1..Len(genByFuel(generation)) :
             genByFuel(generation)[k].fuel \notin listedFuels =>
                \A i \in 1..Len(mixRows) : mixRows[i].mw >= genByFuel(generation)[k].mw

\* C19 witness: total 1000 with wind 400 and gas 600 is rendered as gas 60%
\* and then wind 40%.
C19_Witness ==
    /\ generation = [total_mw |-> 1000,
                     by_fuel |-> << [fuel |-> "wind", mw |-> 400],
                                    [fuel |-> "gas", mw |-> 600] >>]
    /\ mix # <<>>
    /\ Len(mixRows) = 2
    /\ mixRows[1].fuel = "gas" /\ mixRows[1].label.units = 60 * pow10(mixDigits(surface))
    /\ mixRows[2].fuel = "wind" /\ mixRows[2].label.units = 40 * pow10(mixDigits(surface))

\* C20: when total generation is 0 or missing, every listed fuel's share is
\* the sentinel 0, on every surface.
C20_ZeroTotalGivesZeroShare ==
    (mix # <<>> /\ totalGen(generation) = 0) =>
        \A i \in 1..Len(mixRows) :
            /\ mixRows[i].pct.kind = "finite"
            /\ mixRows[i].pct.num = 0

\* ------------------------------------------------- component rendering
\* C21: an interconnector's flow is classified the same way by marker
\* colour, tooltip and selection panel: import/green when flow > 0,
\* export/red when flow < 0, idle/grey and neither label when flow = 0.
C21_FlowClassifiedThreeWays ==
    (props.site = "interconnector" /\ view # <<>> /\ "flow_mw" \in DOMAIN props.e) =>
        /\ props.e.flow_mw > 0 =>
             /\ view[1].colour = "green" /\ view[1].tooltip = "import"
             /\ view[1].panel \in {[colour |-> "green", label |-> "import"],
                                   [colour |-> "none", label |-> "none"]}
        /\ props.e.flow_mw < 0 =>
             /\ view[1].colour = "red" /\ view[1].tooltip = "export"
             /\ view[1].panel \in {[colour |-> "red", label |-> "export"],
                                   [colour |-> "none", label |-> "none"]}
        /\ props.e.flow_mw = 0 =>
             /\ view[1].colour = "grey"
             /\ view[1].tooltip \notin {"import", "export"}
             /\ view[1].panel.label \notin {"import", "export"}
             /\ view[1].panel.colour \notin {"green", "red"}

\* The band of a headroom value: green above 100, amber above 50 up to 100,
\* red up to 50.
band(h) == IF h > 100 THEN "green" ELSE IF h > 50 THEN "amber" ELSE "red"

definedFactor(x) ==
    \/ x.kind = "none"
    \/ x.kind = "finite" /\ x.num >= 0 /\ x.den > 0

\* C23: for every generator, also with capacity 0 or a missing output or
\* capacity, the capacity factor at the marker and at the selection panel
\* is a defined non-negative number, never NaN.
C23_CapacityFactorDefined ==
    (props.site = "generator" /\ view # <<>>) =>
        /\ definedFactor(view[1].capFactor)
        /\ definedFactor(view[1].panelFactor)

\* C24: a fuel kind outside the closed enumeration gets the 'other' bucket
\* at the generator marker, the generation-mix icon and the generation-mix
\* bar colour.
C24_UnknownFuelIsOther ==
    /\ (props.site = "mixRow" /\ view # <<>> /\ props.fuel \notin FuelKinds(surface)) =>
          /\ view[1].icon = tableIcon("other")
          /\ view[1].colour = tableColour("other")
    /\ (props.site = "generator" /\ view # <<>>
          /\ props.e.fuel_type \notin FuelKinds(surface)) =>
          view[1].colour = tableColour("other")

\* C26: the scene holds every placeable entity of every visible layer's
\* collection, whatever its size, and no entity of a hidden layer.
C26_SceneComplete ==
    (props.site = "scene" /\ view # <<>>) =>
        \A kind \in EntityKinds :
            IF isVisible(surface, props.layers, layerKey(kind))
            THEN \A i \in 1..Len(collection(surface, props.overlay, kind)) :
                    ~unplaceable(collection(surface, props.overlay, kind)[i]) =>
                        \E j \in 1..Len(view[1][kind]) :
                            view[1][kind][j] = collection(surface, props.overlay, kind)[i]
            ELSE view[1][kind] = <<>>

\* ------------------------------------------------------ highlight, pause
\* The entities a surface currently draws.
drawn ==
    UNION { { scene(surface, layers, data.overlay)[kind][i] :
                i \in 1..Len(scene(surface, layers, data.overlay)[kind]) } :
            kind \in EntityKinds }

\* C25: when the selection is drawn (its layer is visible), exactly the
\* selected entity has the highlight treatment.
C25_ExactlySelectionHighlighted ==
    (selection # Null /\ selection \in drawn) =>
        highlighted(surface, layers, data.overlay, selection) = {selection}

\* C27: while updates are paused, no timer-driven poll cycle starts and
\* snapshot, overlay and opportunities do not change.
C27_PausedMeansNoPolling ==
    [][(~isPlaying /\ ~isPlaying') =>
          /\ ticks' = ticks
          /\ data'.snapshot = data.snapshot
          /\ data'.overlay = data.overlay
          /\ data'.opportunities = data.opportunities]_vars

\* C28: in GridMapOverlay, loading is true whenever a poll cycle is in
\* flight, so the Refresh control is never enabled during one.
C28_LoadingWhileInFlight ==
    (surface = "GridMapOverlay" /\ mounted /\ InFlight # {}) => data.loading

\* A step in which a cycle of useGridData ends in the catch branch.
exceptionArrival ==
    /\ surface \in HookSurfaces
    /\ mounted
    /\ \E c \in Cycles : cycle[c] = "inflight" /\ cycle'[c] = "done"
    /\ \E d \in Docs : arrived'[1].status[d] = "rejected"

\* C29: when a cycle of useGridData ends in the exception path, snapshot,
\* overlay, opportunities and lastUpdate keep their values; loading becomes
\* false and error is set.
C29_ExceptionKeepsData ==
    [][exceptionArrival =>
          /\ data'.snapshot = data.snapshot
          /\ data'.overlay = data.overlay
          /\ data'.opportunities = data.opportunities
          /\ data'.lastUpdate = data.lastUpdate
          /\ data'.loading = FALSE
          /\ data'.error # Null]_vars

\* C29 witness: after documents were stored, a later cycle has ended in the
\* exception path and they are still there.
C29_Witness ==
    /\ surface \in HookSurfaces
    /\ arrived # <<>>
    /\ \E d \in Docs : arrived[1].status[d] = "rejected"
    /\ data.snapshot # Null /\ data.overlay # Null /\ data.lastUpdate # Null
    /\ data.error # Null /\ ~data.loading

\* C30: in GridSimulator every visible layer is rendered with the opacity
\* stored for it, 0 included, and the slider shows the stored value.
C30_RenderedOpacityIsStored ==
    surface = "GridSimulator" =>
        \A key \in DOMAIN layers :
            isVisible(surface, layers, key) =>
                /\ renderedOpacity(layers, key) = layers[key].opacity
                /\ sliderValue(layers, key) = layers[key].opacity

====
